---- MODULE Spec2Model ----
(***************************************************************************)
(* Model of Utils.logStat (lib/classes/Utils.js): the usage-telemetry      *)
(* aggregator.  One behaviour is one call of logStat on one service        *)
(* configuration: the promise executor (config gate, function profiling,   *)
(* event classification, payload assembly) followed by the .then handler   *)
(* that hands the payload to segment.track.                                *)
(*                                                                         *)
(* JavaScript values are tagged records; strings are sequences of          *)
(* one-character strings so that toUpperCase, includes and Number are      *)
(* computed rather than assumed.                                           *)
(*                                                                         *)
(* Not modelled: the command and general sections of the payload and the   *)
(* service fields numberOfCustomPlugins / hasCustomVariableSyntaxDefined   *)
(* (lines 144-155, 250-257, 264-268, 290-309).  They read the CLI input    *)
(* and the host environment only and feed nothing else in the payload.     *)
(***************************************************************************)
EXTENDS Integers, Sequences, FiniteSets

(***************************************************************************)
(* Bounds of the model.                                                    *)
(***************************************************************************)
MaxFunctions == 2
MaxEvents == 2

(***************************************************************************)
(* Literals of the source.                                                 *)
(***************************************************************************)
DefaultMemorySize == 1024
DefaultTimeout == 6
PayloadVersion == 2

AWS_IAM == <<"A","W","S","_","I","A","M">>
ARN_COGNITO == <<"a","r","n",":","a","w","s",":","c","o","g","n","i","t","o","-","i","d","p">>
ARN_LAMBDA == <<"a","r","n",":","a","w","s",":","l","a","m","b","d","a">>
AWS == <<"A","W","S">>

(***************************************************************************)
(* JavaScript values.                                                      *)
(***************************************************************************)
Undefined == [t |-> "undefined", n |-> 0, s |-> <<>>]
Null == [t |-> "null", n |-> 0, s |-> <<>>]
NaN == [t |-> "nan", n |-> 0, s |-> <<>>]
Num(k) == [t |-> "number", n |-> k, s |-> <<>>]
Str(chars) == [t |-> "string", n |-> 0, s |-> chars]
Bool(b) == [t |-> "boolean", n |-> IF b THEN 1 ELSE 0, s |-> <<>>]
\* a plain object carrying none of the properties logStat reads,
\* e.g. { 'Fn::GetAtt': [...] }
Obj == [t |-> "object", n |-> 0, s |-> <<>>]
\* an authorizer object { type, name, arn }; an absent property is Undefined
AuthorizerObject(type, name, arn) ==
  [t |-> "authorizer", type |-> type, name |-> name, arn |-> arn]

\* ToBoolean
Truthy(v) ==
  CASE v.t = "undefined" -> FALSE
    [] v.t = "null" -> FALSE
    [] v.t = "nan" -> FALSE
    [] v.t = "number" -> v.n # 0
    [] v.t = "boolean" -> v.n = 1
    [] v.t = "string" -> Len(v.s) > 0
    [] OTHER -> TRUE

\* property read v[field] for field in type, name, arn; primitives and plain
\* objects have no such own or inherited property
Get(v, field) == IF v.t = "authorizer" THEN v[field] ELSE Undefined

(***************************************************************************)
(* String.prototype.toUpperCase and String.prototype.includes              *)
(***************************************************************************)
LowerCase == <<"a","b","c","d","e","f","g","h","i","j","k","l","m","n","o","p","q","r","s","t","u","v","w","x","y","z">>
UpperCase == <<"A","B","C","D","E","F","G","H","I","J","K","L","M","N","O","P","Q","R","S","T","U","V","W","X","Y","Z">>
Digits == <<"0","1","2","3","4","5","6","7","8","9">>

UpperChar(c) ==
  IF \E i \in DOMAIN LowerCase : LowerCase[i] = c
    THEN UpperCase[CHOOSE i \in DOMAIN LowerCase : LowerCase[i] = c]
    ELSE c

toUpperCase(chars) == [i \in DOMAIN chars |-> UpperChar(chars[i])]

includes(chars, sub) ==
  \E i \in 0..(Len(chars) - Len(sub)) : SubSeq(chars, i + 1, i + Len(sub)) = sub

(***************************************************************************)
(* Number(v): ToNumber.  The strings of the model are empty, decimal digit *)
(* strings or strings with a non-digit letter.                             *)
(***************************************************************************)
IsDigit(c) == \E i \in DOMAIN Digits : Digits[i] = c

DigitValue(c) == (CHOOSE i \in DOMAIN Digits : Digits[i] = c) - 1

RECURSIVE DecimalValue(_)
DecimalValue(chars) ==
  IF chars = <<>> THEN 0
  ELSE 10 * DecimalValue(SubSeq(chars, 1, Len(chars) - 1)) + DigitValue(chars[Len(chars)])

StringToNumber(chars) ==
  IF \A i \in DOMAIN chars : IsDigit(chars[i]) THEN Num(DecimalValue(chars)) ELSE NaN

Number(v) ==
  CASE v.t = "undefined" -> NaN
    [] v.t = "null" -> Num(0)
    [] v.t = "boolean" -> Num(v.n)
    [] v.t = "number" -> v
    [] v.t = "nan" -> NaN
    [] v.t = "string" -> StringToNumber(v.s)
    [] OTHER -> NaN

\* a || b || c
OrChain(a, b, c) == IF Truthy(a) THEN a ELSE IF Truthy(b) THEN b ELSE c

(***************************************************************************)
(* Function profiling, lines 158-177.                                      *)
(***************************************************************************)
\* the mutation of memorySize: the provider default is consulted first
memorySizeProviderFirst(func, provider) ==
  OrChain(Number(provider.memorySize), Number(func.memorySize), Num(DefaultMemorySize))

memorySize(func, provider) ==
  OrChain(Number(func.memorySize), Number(provider.memorySize), Num(DefaultMemorySize))

timeout(func, provider) ==
  OrChain(Number(func.timeout), Number(provider.timeout), Num(DefaultTimeout))

memorySizeAndTimeoutObject(func, provider) ==
  [memorySize |-> memorySize(func, provider), timeout |-> timeout(func, provider)]

\* _.forEach(functions, ...) pushes one object per function, in the order in
\* which the functions mapping enumerates
ProfileFunctions(functions, provider) ==
  [i \in DOMAIN functions |-> memorySizeAndTimeoutObject(functions[i], provider)]

(***************************************************************************)
(* Event tally, lines 194-202.                                             *)
(***************************************************************************)
\* _.find(numberOfEventsPerType, { name }): index of the first match, 0 if none
FindEvent(tally, name) ==
  IF \E i \in DOMAIN tally : tally[i].name = name
    THEN CHOOSE i \in DOMAIN tally :
           /\ tally[i].name = name
           /\ \A j \in 1..(i - 1) : tally[j].name # name
    ELSE 0

\* the mutation of CountEvent: every binding adds an entry of its own
CountEventAlwaysNew(tally, name) == Append(tally, [name |-> name, count |-> 1])

CountEvent(tally, name) ==
  LET i == FindEvent(tally, name) IN
    IF i # 0
      THEN [tally EXCEPT ![i].count = @ + 1]
      ELSE Append(tally, [name |-> name, count |-> 1])

(***************************************************************************)
(* Authorizer classification, lines 205-232.  A condition evaluates to     *)
(* "true", "false" or "throw" (a TypeError: toUpperCase / includes called  *)
(* on a value that is not a string).                                       *)
(***************************************************************************)
Tri(b) == IF b THEN "true" ELSE "false"

\* a || b with short circuit
OrElse(a, b) == IF a = "true" THEN "true" ELSE IF a = "throw" THEN "throw" ELSE b

\* x && x.toUpperCase() === lit
AndUpperEquals(x, lit) ==
  IF ~Truthy(x) THEN "false"
  ELSE IF x.t # "string" THEN "throw"
  ELSE Tri(toUpperCase(x.s) = lit)

\* x && x.includes(sub)
AndIncludes(x, sub) ==
  IF ~Truthy(x) THEN "false"
  ELSE IF x.t # "string" THEN "throw"
  ELSE Tri(includes(x.s, sub))

IAMCondition(a) ==
  OrElse(Tri(a.t = "string" /\ toUpperCase(a.s) = AWS_IAM),
         AndUpperEquals(Get(a, "type"), AWS_IAM))

\* the mutation of CustomCondition: a Cognito ARN given as a string is not
\* told apart from a function name or ARN
CustomConditionAnyString(a) ==
  OrElse(Tri(a.t = "string" /\ toUpperCase(a.s) # AWS_IAM),
         OrElse(Tri(Truthy(Get(a, "name"))),
                AndIncludes(Get(a, "arn"), ARN_LAMBDA)))

CustomCondition(a) ==
  OrElse(Tri(/\ a.t = "string"
             /\ toUpperCase(a.s) # AWS_IAM
             /\ ~includes(a.s, ARN_COGNITO)),
         OrElse(Tri(Truthy(Get(a, "name"))),
                AndIncludes(Get(a, "arn"), ARN_LAMBDA)))

CognitoCondition(a) ==
  OrElse(Tri(a.t = "string" /\ includes(a.s, ARN_COGNITO)),
         AndIncludes(Get(a, "arn"), ARN_COGNITO))

\* event.http: the descriptor when the binding's key is http, else undefined
EventHttp(event) == IF event.name = "http" THEN event.value ELSE Undefined

\* event.http.authorizer (evaluated only when event.http is truthy)
HttpAuthorizer(event) ==
  IF EventHttp(event).t = "httpobject" THEN EventHttp(event).authorizer ELSE Undefined

\* event.http && event.http.authorizer
HasAuthorizer(event) == Truthy(EventHttp(event)) /\ Truthy(HttpAuthorizer(event))

\* the mutation of ClassifyAuthorizer: each flag is assigned the condition
\* of the binding at hand instead of being set when it holds
ClassifyAuthorizerAssigning(a, flags) ==
  LET c1 == IAMCondition(a)
      c2 == CustomCondition(a)
      c3 == CognitoCondition(a)
      f1 == [flags EXCEPT !.hasIAMAuthorizer = (c1 = "true")]
      f2 == [f1 EXCEPT !.hasCustomAuthorizer = (c2 = "true")]
      f3 == [f2 EXCEPT !.hasCognitoAuthorizer = (c3 = "true")]
  IN  IF c1 = "throw" THEN [threw |-> TRUE, flags |-> flags]
      ELSE IF c2 = "throw" THEN [threw |-> TRUE, flags |-> f1]
      ELSE IF c3 = "throw" THEN [threw |-> TRUE, flags |-> f2]
      ELSE [threw |-> FALSE, flags |-> f3]

\* The three if statements in order.  The result carries the flags as left
\* by the statements that completed and whether a condition threw.
ClassifyAuthorizer(a, flags) ==
  LET c1 == IAMCondition(a)
      c2 == CustomCondition(a)
      c3 == CognitoCondition(a)
      f1 == [flags EXCEPT !.hasIAMAuthorizer = @ \/ c1 = "true"]
      f2 == [f1 EXCEPT !.hasCustomAuthorizer = @ \/ c2 = "true"]
      f3 == [f2 EXCEPT !.hasCognitoAuthorizer = @ \/ c3 = "true"]
  IN  IF c1 = "throw" THEN [threw |-> TRUE, flags |-> flags]
      ELSE IF c2 = "throw" THEN [threw |-> TRUE, flags |-> f1]
      ELSE IF c3 = "throw" THEN [threw |-> TRUE, flags |-> f2]
      ELSE [threw |-> FALSE, flags |-> f3]

ClassifyEvent(event, flags) ==
  IF HasAuthorizer(event)
    THEN ClassifyAuthorizer(HttpAuthorizer(event), flags)
    ELSE [threw |-> FALSE, flags |-> flags]

NoFlags ==
  [hasIAMAuthorizer |-> FALSE, hasCustomAuthorizer |-> FALSE, hasCognitoAuthorizer |-> FALSE]

(***************************************************************************)
(* Service features, lines 240-248 and 272.  resources is <<>> when absent *)
(* or <<r>>; r.Resources and r.Outputs are <<>> when absent or <<keys>>.    *)
(***************************************************************************)
HasKeys(section) == section # <<>> /\ Cardinality(section[1]) # 0

hasCustomResourcesDefined(resources) ==
  /\ resources # <<>>
  /\ HasKeys(resources[1].Resources) \/ HasKeys(resources[1].Outputs)

(***************************************************************************)
(* provider && provider.name && provider.name.toUpperCase() === 'AWS',     *)
(* line 311                                                                *)
(***************************************************************************)
\* the mutation of IsAwsProvider: the name is compared as written
IsAwsProviderCaseSensitive(provider) ==
  IF ~Truthy(provider.name) THEN "false"
  ELSE IF provider.name.t # "string" THEN "throw"
  ELSE Tri(provider.name.s = AWS)

IsAwsProvider(provider) == AndUpperEquals(provider.name, AWS)

(***************************************************************************)
(* Inputs: the service configurations and the collaborators' outcomes.     *)
(***************************************************************************)
SeqUpTo(S, n) == UNION {[1..k -> S] : k \in 0..n}

s_aws_iam == <<"a","w","s","_","i","a","m">>
s_Aws_Iam == <<"A","w","s","_","I","a","m">>
s_myAuthFn == <<"m","y","A","u","t","h","F","n">>
s_lambdaArn == <<"a","r","n",":","a","w","s",":","l","a","m","b","d","a",":","f">>
s_cognitoArn == <<"a","r","n",":","a","w","s",":","c","o","g","n","i","t","o","-","i","d","p",":","p">>
s_upperCognitoArn == <<"A","R","N",":","A","W","S",":","C","O","G","N","I","T","O","-","I","D","P",":","P">>
s_aws == <<"a","w","s">>
s_Aws == <<"A","w","s">>
s_google == <<"g","o","o","g","l","e">>
s_awsx == <<"a","w","s","x">>
s_256 == <<"2","5","6">>
s_abc == <<"a","b","c">>
s_0 == <<"0">>
s_id == <<"i","d">>

HttpObject(authorizer) == [t |-> "httpobject", authorizer |-> authorizer]
Binding(name, value) == [name |-> name, value |-> value]
Array(items) == [t |-> "array", items |-> items]
Function(m, t, e) == [memorySize |-> m, timeout |-> t, events |-> e]
Provider(name, m, t) == [name |-> name, memorySize |-> m, timeout |-> t]
Service(provider, functions, resources, custom) ==
  [provider |-> provider, functions |-> functions, resources |-> resources, custom |-> custom]

\* values of memorySize and timeout at function level, as <<memorySize,
\* timeout>> (the two chains are separate code and share no value), and at
\* provider level
FunctionSettings ==
  {<<Undefined, Undefined>>, <<Null, Num(30)>>, <<Num(0), Str(s_0)>>, <<Num(512), Num(0)>>,
   <<Str(s_256), Str(s_abc)>>, <<Str(s_abc), Null>>}
ProviderMemorySizes == {Undefined, Num(0), Num(2048), Str(s_abc)}
ProviderTimeouts == {Undefined, Num(10), Str(<<>>)}

\* authorizer descriptors: strings, objects with any subset of type / name /
\* arn (values strings or not), and values that are neither
AuthorizerTypes == {Undefined, Str(AWS_IAM), Str(s_aws_iam), Str(s_abc), Str(<<>>), Num(5), Obj}
AuthorizerNames == {Undefined, Str(s_myAuthFn), Str(<<>>), Num(5)}
AuthorizerArns ==
  {Undefined, Str(s_lambdaArn), Str(s_cognitoArn), Str(s_abc), Str(<<>>), Obj}
StringAuthorizers ==
  {Str(AWS_IAM), Str(s_aws_iam), Str(s_Aws_Iam), Str(s_myAuthFn), Str(s_lambdaArn),
   Str(s_cognitoArn), Str(s_upperCognitoArn), Str(<<>>)}
ObjectAuthorizers ==
  {AuthorizerObject(ty, nm, arn) :
     ty \in AuthorizerTypes, nm \in AuthorizerNames, arn \in AuthorizerArns}
Authorizers == StringAuthorizers \cup ObjectAuthorizers \cup {Undefined, Null, Num(1)}

ProviderNames ==
  {Undefined, Str(AWS), Str(s_aws), Str(s_Aws), Str(s_google), Str(s_awsx), Str(<<>>), Num(5)}

DefaultProvider == Provider(Str(s_aws), Undefined, Undefined)
DefaultFunction == Function(Undefined, Undefined, Undefined)

PlainBindings ==
  {Binding("s3", Obj), Binding("sns", Str(s_abc)), Binding("http", HttpObject(Undefined))}
IAMBindings == {Binding("s3", Obj), Binding("http", HttpObject(Str(s_aws_iam)))}
CustomCognitoBindings ==
  {Binding("http", HttpObject(AuthorizerObject(Undefined, Str(s_myAuthFn), Undefined))),
   Binding("http", HttpObject(Str(s_cognitoArn)))}
OtherBindings ==
  {Binding("http", Null), Binding("http", Str(s_abc)),
   Binding("s3", HttpObject(Str(AWS_IAM)))}

EventLists(bindings, ne) ==
  {Undefined} \cup {Array(items) : items \in SeqUpTo(bindings, ne)}

ResourceSections == {<<>>, <<{}>>, <<{"a"}>>}
ResourceShapes ==
  {<<>>} \cup {<<[Resources |-> r, Outputs |-> o]>> : r \in ResourceSections, o \in ResourceSections}

\* memorySize / timeout fallback chains over up to MaxFunctions functions
ProfileServices ==
  {Service(Provider(Str(s_aws), pm, pt), fs, <<>>, Undefined) :
     pm \in ProviderMemorySizes, pt \in ProviderTimeouts,
     fs \in SeqUpTo({Function(mt[1], mt[2], Undefined) : mt \in FunctionSettings},
                    MaxFunctions)}

\* up to nf functions, each without events or with up to ne bindings
EventServices(bindings, nf, ne) ==
  {Service(DefaultProvider, fs, <<>>, Undefined) :
     fs \in SeqUpTo({Function(Undefined, Undefined, e) : e \in EventLists(bindings, ne)},
                    nf)}

\* one http binding with any authorizer, alone, after a binding without
\* one or before an http binding without one
AuthorizerServices ==
  {Service(DefaultProvider,
           <<Function(Undefined, Undefined,
                      Array(around[1] \o <<Binding("http", HttpObject(a))>> \o around[2]))>>,
           <<>>, Undefined) :
     a \in Authorizers,
     around \in {<< <<>>, <<>> >>, << <<Binding("s3", Obj)>>, <<>> >>,
                 << <<>>, <<Binding("http", HttpObject(Undefined))>> >>}}

\* any provider name, with and without an authorizer in the service
ProviderServices ==
  {Service(Provider(pn, Undefined, Undefined), fs, <<>>, Undefined) :
     pn \in ProviderNames,
     fs \in {<<>>, <<DefaultFunction>>,
             <<Function(Undefined, Undefined,
                        Array(<<Binding("http", HttpObject(Str(AWS_IAM)))>>))>>,
             <<Function(Undefined, Undefined,
                        Array(<<Binding("http", HttpObject(Str(s_lambdaArn)))>>))>>}}

\* the remaining binding shapes, resources and custom
FeatureServices ==
  {Service(DefaultProvider, <<Function(Undefined, Undefined, Array(<<b>>))>>, r, c) :
     b \in OtherBindings, r \in ResourceShapes, c \in {Undefined, Obj}}
    \cup {Service(DefaultProvider, <<Function(Undefined, Undefined, Null)>>, <<>>, Undefined)}

Services ==
  ProfileServices
    \cup EventServices(IAMBindings, MaxFunctions, MaxEvents)
    \cup EventServices(CustomCognitoBindings, MaxFunctions, MaxEvents)
    \cup EventServices(PlainBindings, 1, MaxEvents + 1)
    \cup AuthorizerServices \cup ProviderServices \cup FeatureServices

\* configUtils.getConfig(): raises, or returns the user configuration
UserConfigs ==
  {[frameworkId |-> Str(s_id), trackingDisabled |-> td] : td \in {Bool(TRUE), Bool(FALSE)}}

(***************************************************************************)
(* State.                                                                  *)
(***************************************************************************)
VARIABLES
  serverless,    \* the service configuration logStat is called on
  pc,            \* position in logStat
  config,        \* <<>> or <<c>>: const config, line 136
  memorySizeAndTimeoutPerFunction,
  numberOfEventsPerType,
  eventNamesPerFunction,
  funcEventsArray,
  authorizerFlags, \* hasIAMAuthorizer, hasCustomAuthorizer, hasCognitoAuthorizer
  fi,            \* index of the function the event loop is at
  ei,            \* index of the event binding the inner loop is at
  executor,      \* the promise of line 135: pending, resolved, rejected
  data,          \* <<>> (undefined) or <<payload>>: the resolution value
  result,        \* the promise logStat returns: pending, fulfilled, rejected
  reason,        \* what was thrown, if anything
  tracked,       \* the payloads handed to segment.track, in order
  delivery       \* what became of the hand-off: none, inflight, delivered, failed

vars ==
  <<serverless, pc, config, memorySizeAndTimeoutPerFunction, numberOfEventsPerType,
    eventNamesPerFunction, funcEventsArray, authorizerFlags, fi, ei, executor, data,
    result, reason, tracked, delivery>>

\* logStat is called on the instance its Utils was built with, so that
\* this.serverless.service.provider (lines 164, 167) is the provider of line 128.
\* functions is the functions mapping as the sequence _.forEach enumerates.
service == serverless.service
functions == service.functions
provider == service.provider
numberOfFunctions == Len(functions)

Init ==
  /\ serverless \in {[service |-> sv] : sv \in Services}
  /\ pc = "getConfig"
  /\ config = <<>>
  /\ memorySizeAndTimeoutPerFunction = <<>>
  /\ numberOfEventsPerType = <<>>
  /\ eventNamesPerFunction = <<>>
  /\ funcEventsArray = <<>>
  /\ authorizerFlags = NoFlags
  /\ fi = 0
  /\ ei = 0
  /\ executor = "pending"
  /\ data = <<>>
  /\ result = "pending"
  /\ reason = "none"
  /\ tracked = <<>>
  /\ delivery = "none"

\* an exception inside the executor rejects its promise
Reject(why) ==
  /\ executor' = "rejected"
  /\ reason' = why
  /\ pc' = "then"

\* resolve(value)
Resolve(value) ==
  /\ executor' = "resolved"
  /\ data' = value
  /\ pc' = "then"

(***************************************************************************)
(* Lines 136-142: read the user configuration; stop when tracking is       *)
(* disabled.                                                               *)
(***************************************************************************)
\* the mutation of TrackingDisabled: the flag is not consulted
TrackingDisabledIgnored(c) == FALSE

\* line 140: if (trackingDisabled)
TrackingDisabled(c) == Truthy(c.trackingDisabled)

GetConfigRaises ==
  /\ pc = "getConfig"
  /\ Reject("getConfig")
  /\ UNCHANGED <<serverless, config, memorySizeAndTimeoutPerFunction, numberOfEventsPerType,
                 eventNamesPerFunction, funcEventsArray, authorizerFlags, fi, ei, data,
                 result, tracked, delivery>>

GetConfig ==
  /\ pc = "getConfig"
  /\ \E c \in UserConfigs :
       /\ config' = <<c>>
       /\ IF TrackingDisabled(c)
            THEN Resolve(<<>>) /\ UNCHANGED reason
            ELSE pc' = "functions" /\ UNCHANGED <<executor, data, reason>>
  /\ UNCHANGED <<serverless, memorySizeAndTimeoutPerFunction, numberOfEventsPerType,
                 eventNamesPerFunction, funcEventsArray, authorizerFlags, fi, ei,
                 result, tracked, delivery>>

(***************************************************************************)
(* Lines 158-177: the first loop over the functions.                       *)
(***************************************************************************)
ProfileLoop ==
  /\ pc = "functions"
  /\ memorySizeAndTimeoutPerFunction' =
       IF numberOfFunctions # 0 THEN ProfileFunctions(functions, provider) ELSE <<>>
  /\ fi' = 1
  /\ pc' = "events"
  /\ UNCHANGED <<serverless, config, numberOfEventsPerType, eventNamesPerFunction,
                 funcEventsArray, authorizerFlags, ei, executor, data, result, reason,
                 tracked, delivery>>

(***************************************************************************)
(* Lines 185-238: the second loop over the functions and, inside it, the   *)
(* loop over the function's event bindings.                                *)
(***************************************************************************)
\* line 187: a function whose events is falsy is passed over
SkipFunction ==
  /\ pc = "events"
  /\ fi <= numberOfFunctions
  /\ ~Truthy(functions[fi].events)
  /\ fi' = fi + 1
  /\ UNCHANGED <<serverless, pc, config, memorySizeAndTimeoutPerFunction,
                 numberOfEventsPerType, eventNamesPerFunction, funcEventsArray,
                 authorizerFlags, ei, executor, data, result, reason, tracked, delivery>>

\* line 188: a function whose events is truthy starts a fresh funcEventsArray
EnterFunction ==
  /\ pc = "events"
  /\ fi <= numberOfFunctions
  /\ Truthy(functions[fi].events)
  /\ funcEventsArray' = <<>>
  /\ ei' = 1
  /\ pc' = "event"
  /\ UNCHANGED <<serverless, config, memorySizeAndTimeoutPerFunction, numberOfEventsPerType,
                 eventNamesPerFunction, authorizerFlags, fi, executor, data, result,
                 reason, tracked, delivery>>

\* lines 190-233: one event binding
ProcessEvent ==
  /\ pc = "event"
  /\ ei <= Len(functions[fi].events.items)
  /\ LET event == functions[fi].events.items[ei]
         name == event.name
         c == ClassifyEvent(event, authorizerFlags)
     IN  /\ funcEventsArray' = Append(funcEventsArray, name)
         /\ numberOfEventsPerType' = CountEvent(numberOfEventsPerType, name)
         /\ authorizerFlags' = c.flags
         /\ IF c.threw
              THEN Reject("TypeError") /\ UNCHANGED ei
              ELSE ei' = ei + 1 /\ UNCHANGED <<pc, executor, reason>>
  /\ UNCHANGED <<serverless, config, memorySizeAndTimeoutPerFunction, eventNamesPerFunction,
                 fi, data, result, tracked, delivery>>

\* the mutation of PushEventNames: an empty funcEventsArray is not pushed
PushEventNamesIfAny(list, names) == IF names = <<>> THEN list ELSE Append(list, names)

\* eventNamesPerFunction.push(funcEventsArray)
PushEventNames(list, names) == Append(list, names)

\* line 235: after the function's last binding
LeaveFunction ==
  /\ pc = "event"
  /\ ei > Len(functions[fi].events.items)
  /\ eventNamesPerFunction' = PushEventNames(eventNamesPerFunction, funcEventsArray)
  /\ fi' = fi + 1
  /\ pc' = "events"
  /\ UNCHANGED <<serverless, config, memorySizeAndTimeoutPerFunction, numberOfEventsPerType,
                 funcEventsArray, authorizerFlags, ei, executor, data, result, reason,
                 tracked, delivery>>

(***************************************************************************)
(* Lines 240-319: assemble the payload and resolve with it.                *)
(***************************************************************************)
Payload(aws) ==
  [userId |-> config[1].frameworkId,
   event |-> "framework_stat",
   properties |->
     [version |-> PayloadVersion,
      service |->
        [hasCustomResourcesDefined |-> hasCustomResourcesDefined(service.resources),
         hasVariablesInCustomSectionDefined |-> Truthy(service.custom)],
      provider |-> [name |-> provider.name],
      functions |->
        [numberOfFunctions |-> numberOfFunctions,
         memorySizeAndTimeoutPerFunction |-> memorySizeAndTimeoutPerFunction],
      events |->
        [numberOfEvents |-> Len(numberOfEventsPerType),
         numberOfEventsPerType |-> numberOfEventsPerType,
         eventNamesPerFunction |-> eventNamesPerFunction],
      aws |-> aws]]

Assemble ==
  /\ pc = "events"
  /\ fi > numberOfFunctions
  /\ LET isAws == IsAwsProvider(provider) IN
       IF isAws = "throw"
         THEN Reject("TypeError") /\ UNCHANGED data
         ELSE /\ Resolve(<<Payload(IF isAws = "true" THEN <<authorizerFlags>> ELSE <<>>)>>)
              /\ UNCHANGED reason
  /\ UNCHANGED <<serverless, config, memorySizeAndTimeoutPerFunction, numberOfEventsPerType,
                 eventNamesPerFunction, funcEventsArray, authorizerFlags, fi, ei, result,
                 tracked, delivery>>

(***************************************************************************)
(* Lines 320-324: the .then handler.  It runs only when the executor's     *)
(* promise resolved; segment.track returns or throws, and what it returns  *)
(* is dropped.                                                             *)
(***************************************************************************)
ThenSkipped ==
  /\ pc = "then"
  /\ executor = "rejected"
  /\ result' = "rejected"
  /\ pc' = "done"
  /\ UNCHANGED <<serverless, config, memorySizeAndTimeoutPerFunction, numberOfEventsPerType,
                 eventNamesPerFunction, funcEventsArray, authorizerFlags, fi, ei, executor,
                 data, reason, tracked, delivery>>

ThenNoData ==
  /\ pc = "then"
  /\ executor = "resolved"
  /\ data = <<>>
  /\ result' = "fulfilled"
  /\ pc' = "done"
  /\ UNCHANGED <<serverless, config, memorySizeAndTimeoutPerFunction, numberOfEventsPerType,
                 eventNamesPerFunction, funcEventsArray, authorizerFlags, fi, ei, executor,
                 data, reason, tracked, delivery>>

ThenTrack ==
  /\ pc = "then"
  /\ executor = "resolved"
  /\ data # <<>>
  /\ tracked' = Append(tracked, data[1])
  /\ delivery' = "inflight"
  /\ result' = "fulfilled"
  /\ pc' = "done"
  /\ UNCHANGED <<serverless, config, memorySizeAndTimeoutPerFunction, numberOfEventsPerType,
                 eventNamesPerFunction, funcEventsArray, authorizerFlags, fi, ei, executor,
                 data, reason>>

ThenTrackThrows ==
  /\ pc = "then"
  /\ executor = "resolved"
  /\ data # <<>>
  /\ tracked' = Append(tracked, data[1])
  /\ delivery' = "failed"
  /\ result' = "rejected"
  /\ reason' = "track"
  /\ pc' = "done"
  /\ UNCHANGED <<serverless, config, memorySizeAndTimeoutPerFunction, numberOfEventsPerType,
                 eventNamesPerFunction, funcEventsArray, authorizerFlags, fi, ei, executor,
                 data>>

\* the sink's own asynchronous work, which nothing in logStat waits for
Deliver ==
  /\ delivery = "inflight"
  /\ delivery' \in {"delivered", "failed"}
  /\ UNCHANGED <<serverless, pc, config, memorySizeAndTimeoutPerFunction,
                 numberOfEventsPerType, eventNamesPerFunction, funcEventsArray,
                 authorizerFlags, fi, ei, executor, data, result, reason, tracked>>

Next ==
  \/ GetConfigRaises
  \/ GetConfig
  \/ ProfileLoop
  \/ SkipFunction
  \/ EnterFunction
  \/ ProcessEvent
  \/ LeaveFunction
  \/ Assemble
  \/ ThenSkipped
  \/ ThenNoData
  \/ ThenTrack
  \/ ThenTrackThrows
  \/ Deliver

Spec == Init /\ [][Next]_vars

(***************************************************************************)
(* Vocabulary of the properties.                                           *)
(***************************************************************************)
\* the user configuration was read and has trackingDisabled set
Disabled == config # <<>> /\ Truthy(config[1].trackingDisabled)

\* a payload was assembled (tracking enabled, nothing thrown on the way)
Assembled == data # <<>>

properties == data[1].properties

\* the event bindings a function declares, none when events is missing
Items(func) == IF func.events.t = "array" THEN func.events.items ELSE <<>>

\* the places <<f, e>> of all event bindings of the service
BindingPlaces ==
  UNION {{<<f, e>> : e \in 1..Len(Items(functions[f]))} : f \in 1..Len(functions)}

BindingAt(place) == Items(functions[place[1]])[place[2]]

\* present and numeric: a number, or a string that spells one
IsNumeric(v) ==
  \/ v.t = "number"
  \/ v.t = "string" /\ Len(v.s) > 0 /\ \A i \in DOMAIN v.s : IsDigit(v.s[i])

NumericValue(v) == IF v.t = "number" THEN v.n ELSE DecimalValue(v.s)

\* function-level value if numeric, else provider-level if numeric, else d
NumericChain(fv, pv, d) ==
  IF IsNumeric(fv) THEN NumericValue(fv)
  ELSE IF IsNumeric(pv) THEN NumericValue(pv)
  ELSE d

\* the same, a value of zero counting as absent
NonZeroChain(fv, pv, d) ==
  IF IsNumeric(fv) /\ NumericValue(fv) # 0 THEN NumericValue(fv)
  ELSE IF IsNumeric(pv) /\ NumericValue(pv) # 0 THEN NumericValue(pv)
  ELSE d

(***************************************************************************)
(* C1: when the user configuration read by logStat has trackingDisabled    *)
(* set, the executor resolves with no payload, none of the aggregation is  *)
(* carried out, logStat's promise is fulfilled once the call is done, and  *)
(* segment.track is never invoked.                                         *)
(***************************************************************************)
C1_DisabledEmitsNothing ==
  Disabled =>
    /\ data = <<>>
    /\ executor = "resolved"
    /\ tracked = <<>>
    /\ delivery = "none"
    /\ result # "rejected"
    /\ pc \in {"then", "done"}
    /\ pc = "done" => result = "fulfilled"
    /\ memorySizeAndTimeoutPerFunction = <<>>
    /\ numberOfEventsPerType = <<>>
    /\ eventNamesPerFunction = <<>>

C1_Witness ==
  /\ Disabled
  /\ pc = "done"
  /\ result = "fulfilled"
  /\ \E p \in BindingPlaces : HasAuthorizer(BindingAt(p))

(***************************************************************************)
(* C2 as stated: the payload holds one {memorySize, timeout} pair per      *)
(* function, in order, each the function-level value if present and        *)
(* numeric, else the provider-level default if present and numeric, else   *)
(* 1024 and 6.                                                             *)
(***************************************************************************)
C2_AsStated ==
  Assembled =>
    /\ properties.functions.numberOfFunctions = Len(functions)
    /\ Len(properties.functions.memorySizeAndTimeoutPerFunction) = Len(functions)
    /\ \A i \in 1..Len(functions) :
         properties.functions.memorySizeAndTimeoutPerFunction[i] =
           [memorySize |->
              Num(NumericChain(functions[i].memorySize, provider.memorySize, 1024)),
            timeout |-> Num(NumericChain(functions[i].timeout, provider.timeout, 6))]

(***************************************************************************)
(* C2 amended: as C2, a value counting only if it is numeric and not zero: *)
(* memorySize is the function-level value if numeric and non-zero, else    *)
(* the provider-level default if numeric and non-zero, else 1024; timeout  *)
(* likewise with 6.  Zero functions give numberOfFunctions = 0 and an      *)
(* empty sequence.                                                         *)
(***************************************************************************)
C2_NonZeroChain ==
  Assembled =>
    /\ properties.functions.numberOfFunctions = Len(functions)
    /\ Len(properties.functions.memorySizeAndTimeoutPerFunction) = Len(functions)
    /\ \A i \in 1..Len(functions) :
         properties.functions.memorySizeAndTimeoutPerFunction[i] =
           [memorySize |->
              Num(NonZeroChain(functions[i].memorySize, provider.memorySize, 1024)),
            timeout |-> Num(NonZeroChain(functions[i].timeout, provider.timeout, 6))]

C2_Witness ==
  /\ Assembled
  /\ Len(functions) = 2
  /\ functions[1].memorySize = Num(0)
  /\ functions[2].memorySize = Str(s_256)
  /\ provider.memorySize = Num(2048)
  /\ properties.functions.memorySizeAndTimeoutPerFunction[1].memorySize = Num(2048)
  /\ properties.functions.memorySizeAndTimeoutPerFunction[2].memorySize = Num(256)

(***************************************************************************)
(* C3: once a payload is assembled, numberOfEventsPerType has exactly one  *)
(* entry per distinct event-type name of the service and no other, each    *)
(* count is the number of bindings of that name across all functions, and  *)
(* numberOfEvents is the number of entries.                                *)
(***************************************************************************)
C3_TallyExact ==
  Assembled =>
    LET tally == properties.events.numberOfEventsPerType IN
      /\ \A i, j \in DOMAIN tally : tally[i].name = tally[j].name => i = j
      /\ {tally[i].name : i \in DOMAIN tally} = {BindingAt(p).name : p \in BindingPlaces}
      /\ \A i \in DOMAIN tally :
           tally[i].count =
             Cardinality({p \in BindingPlaces : BindingAt(p).name = tally[i].name})
      /\ properties.events.numberOfEvents = Len(tally)

C3_Witness ==
  /\ Assembled
  /\ Len(functions) = 2
  /\ \A f \in 1..2 : {Items(functions[f])[e].name : e \in DOMAIN Items(functions[f])} = {"http", "s3"}
  /\ {properties.events.numberOfEventsPerType[i] :
        i \in DOMAIN properties.events.numberOfEventsPerType}
       = {[name |-> "http", count |-> 2], [name |-> "s3", count |-> 2]}

(***************************************************************************)
(* The authorizer predicates, stated on the shape of the authorizer.       *)
(***************************************************************************)
EqualsIgnoringCase(x, y) ==
  Len(x) = Len(y) /\ \A i \in DOMAIN x : UpperChar(x[i]) = UpperChar(y[i])

IsString(v) == v.t = "string"
IsObject(v) == v.t = "authorizer"

IsIAM(a) ==
  \/ IsString(a) /\ EqualsIgnoringCase(a.s, AWS_IAM)
  \/ IsObject(a) /\ IsString(a.type) /\ EqualsIgnoringCase(a.type.s, AWS_IAM)

IsCognito(a) ==
  \/ IsString(a) /\ includes(a.s, ARN_COGNITO)
  \/ IsObject(a) /\ IsString(a.arn) /\ includes(a.arn.s, ARN_COGNITO)

\* as the specification words it: any string, any name field
IsCustomAsStated(a) ==
  \/ IsString(a) /\ ~EqualsIgnoringCase(a.s, AWS_IAM) /\ ~includes(a.s, ARN_COGNITO)
  \/ IsObject(a) /\ a.name # Undefined
  \/ IsObject(a) /\ IsString(a.arn) /\ includes(a.arn.s, ARN_LAMBDA)

\* a non-empty string, a name that is not empty (not falsy)
IsCustom(a) ==
  \/ /\ IsString(a)
     /\ a.s # <<>>
     /\ ~EqualsIgnoringCase(a.s, AWS_IAM)
     /\ ~includes(a.s, ARN_COGNITO)
  \/ IsObject(a) /\ a.name \notin {Undefined, Null, Str(<<>>), Num(0), Bool(FALSE)}
  \/ IsObject(a) /\ IsString(a.arn) /\ includes(a.arn.s, ARN_LAMBDA)

FlagsOf(a, custom) ==
  [hasIAMAuthorizer |-> IsIAM(a), hasCustomAuthorizer |-> custom,
   hasCognitoAuthorizer |-> IsCognito(a)]

\* the authorizer field of a binding's descriptor, Undefined when it has none
AuthorizerField(b) == IF b.value.t = "httpobject" THEN b.value.authorizer ELSE Undefined

Carriers == {p \in BindingPlaces : AuthorizerField(BindingAt(p)) # Undefined}

\* the only binding that carries an authorizer is one http binding
OneHttpCarrier ==
  Cardinality(Carriers) = 1 /\ \A p \in Carriers : BindingAt(p).name = "http"

TheAuthorizer == AuthorizerField(BindingAt(CHOOSE p \in Carriers : TRUE))

FlagCount(flags) ==
  Cardinality({k \in DOMAIN flags : flags[k]})

(***************************************************************************)
(* C4 as stated: with one http binding as the only binding that carries an *)
(* authorizer, the flags are IAM iff the string "AWS_IAM" or an object of  *)
(* that type (any case), Custom iff a string that is neither "AWS_IAM" nor *)
(* a Cognito ARN or an object with a name field or a Lambda arn, Cognito   *)
(* iff a string or an object's arn containing the Cognito ARN prefix; a    *)
(* string authorizer sets exactly one flag.                                *)
(***************************************************************************)
C4_AsStated ==
  (Assembled /\ OneHttpCarrier) =>
    /\ authorizerFlags = FlagsOf(TheAuthorizer, IsCustomAsStated(TheAuthorizer))
    /\ IsString(TheAuthorizer) => FlagCount(authorizerFlags) = 1

(***************************************************************************)
(* C4 amended: in every payload logStat assembles for such a service, IAM  *)
(* and Cognito are as stated, and Custom holds iff the authorizer is a     *)
(* non-empty string that is neither "AWS_IAM" (any case) nor contains      *)
(* "arn:aws:cognito-idp", or an object whose name is present and not empty *)
(* (not falsy), or an object whose arn contains "arn:aws:lambda".  A       *)
(* non-empty string authorizer sets exactly one flag; an empty string sets *)
(* none.  The aws section of the payload, when present, carries the flags. *)
(***************************************************************************)
C4_FlagsMatchShape ==
  (Assembled /\ OneHttpCarrier) =>
    /\ authorizerFlags = FlagsOf(TheAuthorizer, IsCustom(TheAuthorizer))
    /\ IsString(TheAuthorizer) =>
         FlagCount(authorizerFlags) = IF TheAuthorizer.s = <<>> THEN 0 ELSE 1
    /\ properties.aws # <<>> => properties.aws[1] = authorizerFlags

C4_Witness ==
  /\ Assembled
  /\ OneHttpCarrier
  /\ TheAuthorizer = Str(s_cognitoArn)
  /\ properties.aws =
       <<[hasIAMAuthorizer |-> FALSE, hasCustomAuthorizer |-> FALSE,
          hasCognitoAuthorizer |-> TRUE]>>

(***************************************************************************)
(* C5: within one pass the three flags start false and only ever go from   *)
(* false to true, whatever binding is processed next; the value the        *)
(* payload reports for a flag is true iff some http binding of the service *)
(* satisfies the flag's predicate; the flags are independent.              *)
(***************************************************************************)
HttpAuthorizers ==
  {AuthorizerField(BindingAt(p)) : p \in {q \in BindingPlaces : BindingAt(q).name = "http"}}

ServiceFlags ==
  [hasIAMAuthorizer |-> \E a \in HttpAuthorizers : IsIAM(a),
   hasCustomAuthorizer |-> \E a \in HttpAuthorizers : IsCustom(a),
   hasCognitoAuthorizer |-> \E a \in HttpAuthorizers : IsCognito(a)]

C5_FlagsAccumulate ==
  [][/\ pc = "getConfig" => authorizerFlags = NoFlags
     /\ \A k \in DOMAIN NoFlags : authorizerFlags[k] => authorizerFlags'[k]
     /\ (data' # <<>> /\ data'[1].properties.aws # <<>>) =>
          data'[1].properties.aws[1] = ServiceFlags]_vars

C5_Witness ==
  /\ pc = "done"
  /\ tracked # <<>>
  /\ Len(functions) = 2
  /\ Len(Items(functions[1])) = 1
  /\ HasAuthorizer(Items(functions[1])[1])
  /\ Len(Items(functions[2])) = 2
  /\ \A e \in 1..2 : ~HasAuthorizer(Items(functions[2])[e])
  /\ tracked[1].properties.aws[1].hasIAMAuthorizer

(***************************************************************************)
(* C6: an assembled payload has the aws section iff the provider name is a *)
(* string equal to "AWS" whatever its case; the section holds the three    *)
(* flags; under any other name, or none, it is absent even when the        *)
(* service declares http authorizers.                                      *)
(***************************************************************************)
C6_AwsSectionIffAws ==
  Assembled =>
    /\ properties.aws # <<>> <=>
         (IsString(provider.name) /\ EqualsIgnoringCase(provider.name.s, AWS))
    /\ properties.aws # <<>> => properties.aws = <<authorizerFlags>>

C6_Witness ==
  /\ pc = "done"
  /\ tracked # <<>>
  /\ provider.name = Str(s_google)
  /\ authorizerFlags.hasIAMAuthorizer
  /\ tracked[1].properties.aws = <<>>

(***************************************************************************)
(* C7 as stated: when configUtils.getConfig raises, logStat completes as   *)
(* if tracking were disabled: no error outcome, no emission.               *)
(***************************************************************************)
C7_AsStated ==
  (pc = "done" /\ reason = "getConfig") => (result = "fulfilled" /\ tracked = <<>>)

(***************************************************************************)
(* C8 as stated: with tracking enabled the assembled payload is handed to  *)
(* segment.track exactly once and logStat's completion is never turned     *)
(* into a failure by the sink failing, at the hand-off or later.           *)
(***************************************************************************)
C8_AsStated ==
  (pc = "done" /\ Assembled) =>
    /\ tracked = <<data[1]>>
    /\ result = "fulfilled"

(***************************************************************************)
(* C9 as stated: with tracking enabled and a readable user configuration,  *)
(* no shape of memorySize, timeout, events, custom, resources or           *)
(* authorizer makes logStat fail (the provider name being a string or      *)
(* absent).                                                                *)
(***************************************************************************)
C9_AsStated ==
  (config # <<>> /\ ~Disabled /\ provider.name.t \in {"string", "undefined"}) =>
    /\ executor # "rejected"
    /\ reason # "TypeError"

(***************************************************************************)
(* C10 as stated: eventNamesPerFunction has one sequence of event-type     *)
(* names per function that declares events, in order; a function whose     *)
(* events is missing or an empty list has no entry; every entry is         *)
(* non-empty and the entries' lengths sum to the tally's counts.           *)
(***************************************************************************)
DeclaredNames(func) == [e \in DOMAIN Items(func) |-> Items(func)[e].name]

RECURSIVE SumOfLengths(_)
SumOfLengths(seqs) ==
  IF seqs = <<>> THEN 0 ELSE Len(Head(seqs)) + SumOfLengths(Tail(seqs))

RECURSIVE SumOfCounts(_)
SumOfCounts(tally) ==
  IF tally = <<>> THEN 0 ELSE Head(tally).count + SumOfCounts(Tail(tally))

NamesOf(funcs) == [i \in DOMAIN funcs |-> DeclaredNames(funcs[i])]

C10_AsStated ==
  Assembled =>
    LET DeclaresEvents(func) == Len(Items(func)) > 0 IN
      /\ properties.events.eventNamesPerFunction = NamesOf(SelectSeq(functions, DeclaresEvents))
      /\ \A i \in DOMAIN properties.events.eventNamesPerFunction :
           properties.events.eventNamesPerFunction[i] # <<>>
      /\ SumOfLengths(properties.events.eventNamesPerFunction)
           = SumOfCounts(properties.events.numberOfEventsPerType)

(***************************************************************************)
(* C10 amended: eventNamesPerFunction has one sequence of event-type names *)
(* per function whose events is a list, empty or not, in function order    *)
(* and binding order; a function whose events is missing (undefined or     *)
(* null) has no entry; a function with an empty list has an empty entry    *)
(* and adds nothing to numberOfEventsPerType; the entries' lengths sum to  *)
(* the tally's counts.                                                     *)
(***************************************************************************)
C10_EntryPerEventList ==
  Assembled =>
    LET HasEventList(func) == func.events.t = "array" IN
      /\ properties.events.eventNamesPerFunction = NamesOf(SelectSeq(functions, HasEventList))
      /\ SumOfLengths(properties.events.eventNamesPerFunction)
           = SumOfCounts(properties.events.numberOfEventsPerType)

C10_Witness ==
  /\ Assembled
  /\ Len(functions) = 2
  /\ functions[1].events = Array(<<>>)
  /\ Len(Items(functions[2])) = 2
  /\ properties.events.eventNamesPerFunction = << <<>>, <<"s3", "http">> >>

====
